---- MODULE Spec2Model ----
(***************************************************************************)
(* Model of the store application of ShaqDevOps/DjangoOnlineStore:         *)
(* the request handlers of store/views.py and the serializers of           *)
(* store/serializers.py, acting on the rows of the backing store.          *)
(*                                                                         *)
(* Spec     : every request is handled to completion before the next one   *)
(*            starts (one action per handler).                             *)
(* SpecConc : add-to-cart requests run on concurrent workers; the lookup   *)
(*            (CartItem.objects.get) and the write (save / create) of      *)
(*            AddCartItemSerializer.save are separate steps.               *)
(***************************************************************************)
EXTENDS Integers, FiniteSets, Sequences, TLC

(* ------------------------------ bounds -------------------------------- *)
\* largest quantity a request body carries
MaxQty == 2
\* number of cart item rows the store ever creates (item ids 1..MaxItemId)
MaxItemId == 2
\* number of concurrent workers handling add requests (SpecConc)
NumWorkers == 2

\* largest quantity a row is allowed to reach in the model
MaxTotal == MaxQty + 1

CartIds == {1, 2}
ProductIds == {1, 2}
CollectionIds == {1, 2}
\* ids a request may name: the catalog ids and one id that never exists
ProductPks == ProductIds \cup {3}
CollectionPks == CollectionIds \cup {3}
ItemPks == 1..MaxItemId
\* the quantities a request body carries: 0 is the invalid one
Qtys == 0..MaxQty
Workers == 1..NumWorkers

(* --------------------------- HTTP statuses ---------------------------- *)
HTTP_200_OK == 200
HTTP_201_CREATED == 201
HTTP_204_NO_CONTENT == 204
HTTP_400_BAD_REQUEST == 400
HTTP_404_NOT_FOUND == 404
HTTP_405_METHOD_NOT_ALLOWED == 405
HTTP_500_INTERNAL_SERVER_ERROR == 500

VARIABLES
    collections,  \* ids of the Collection rows
    products,     \* Product rows: id -> [collection, unit_price]
    orderitems,   \* OrderItem rows: set of [id, product_id]
    carts,        \* ids of the Cart rows
    issued,       \* number of cart ids handed out so far (an id is never handed out twice)
    cartitems,    \* CartItem rows: set of [id, cart_id, product_id, quantity]
    nextItemId,   \* next auto-increment primary key of CartItem
    last,         \* the response to the request handled last
    inflight,     \* SpecConc: per worker, the add request it is handling
    requested     \* SpecConc: per (cart, product), sum of the quantities of the
                  \*           add requests answered 201

dbvars == <<collections, products, orderitems, carts, issued, cartitems, nextItemId>>
concvars == <<inflight, requested>>
vars == <<collections, products, orderitems, carts, issued, cartitems, nextItemId,
          last, inflight, requested>>

(* ------------------------------ helpers ------------------------------- *)
\* a response: the operation answered, the status, and the fields of the body
\* (those a body does not have keep their defaults)
Response(op, status) ==
    [op |-> op, status |-> status, id |-> 0, product_id |-> 0, quantity |-> 0,
     items |-> {}, total_price |-> 0, errors |-> {}]

\* the rows of cart c (the reverse relation cart.items)
ItemsOf(items, c) == {r \in items : r.cart_id = c}

(* ---------------------- store/serializers.py -------------------------- *)
\* CartItemSerializer.get_total_price: quantity times the product's unit price
CartItemSerializer_get_total_price(prods, cart_item) ==
    cart_item.quantity * prods[cart_item.product_id].unit_price

RECURSIVE SumLines(_, _)
\* sum([item.quantity * item.product.unit_price for item in rows])
SumLines(prods, rows) ==
    IF rows = {} THEN 0
    ELSE LET item == CHOOSE r \in rows : TRUE
         IN  item.quantity * prods[item.product_id].unit_price
               + SumLines(prods, rows \ {item})

\* CartSerializer.get_total_price over cart.items.all()
\* (faulty variant: only one item is counted)
CartSerializer_get_total_price_first(prods, items, c) ==
    IF ItemsOf(items, c) = {} THEN 0
    ELSE LET item == CHOOSE r \in ItemsOf(items, c) : TRUE
         IN  item.quantity * prods[item.product_id].unit_price
CartSerializer_get_total_price(prods, items, c) ==
    SumLines(prods, ItemsOf(items, c))

\* CartItemSerializer: one serialized line of a cart
SerializeItem(prods, r) ==
    [id |-> r.id, product_id |-> r.product_id, quantity |-> r.quantity,
     total_price |-> CartItemSerializer_get_total_price(prods, r)]

\* AddCartItemSerializer.validate_product_id: TRUE when no ValidationError is raised
\* (faulty variant: every id is accepted)
validate_product_id_any(prods, value) == TRUE
validate_product_id(prods, value) == value \in DOMAIN prods

\* the quantity field of CartItem accepts positive integers only
validate_quantity(value) == value >= 1

\* the storage layer accepts a CartItem row only when the cart and the product it
\* references exist
ForeignKeyHolds(live_carts, prods, cart_id, product_id) ==
    cart_id \in live_carts /\ product_id \in DOMAIN prods

\* CartItem.objects.get(cart_id=cart_id, product_id=product_id): the matching rows;
\* one row is returned, none raises DoesNotExist, more raise MultipleObjectsReturned
CartItem_objects_get(items, cart_id, product_id) ==
    {r \in items : r.cart_id = cart_id /\ r.product_id = product_id}

\* cart_item.quantity += quantity; cart_item.save(): the row read earlier is
\* written back under its primary key with the quantity computed in memory
\* (faulty variant: = instead of +=)
save_increment_assign(items, cart_item, quantity) ==
    {r \in items : r.id # cart_item.id}
        \cup {[cart_item EXCEPT !.quantity = quantity]}
\* (faulty variant: -= instead of +=)
save_increment_subtract(items, cart_item, quantity) ==
    {r \in items : r.id # cart_item.id}
        \cup {[cart_item EXCEPT !.quantity = cart_item.quantity - quantity]}
\* (variant: the increment is applied to the stored row, not to the row read)
save_increment_atomic(items, cart_item, quantity) ==
    {IF r.id = cart_item.id THEN [r EXCEPT !.quantity = r.quantity + quantity] ELSE r
       : r \in items}
save_increment(items, cart_item, quantity) ==
    {r \in items : r.id # cart_item.id}
        \cup {[cart_item EXCEPT !.quantity = cart_item.quantity + quantity]}

\* CartItem.objects.create(cart_id=cart_id, **validated_data)
CartItem_objects_create(items, nid, cart_id, product_id, quantity) ==
    items \cup {[id |-> nid, cart_id |-> cart_id, product_id |-> product_id,
                 quantity |-> quantity]}

\* the result of save when an exception leaves the handler
Failed(items) ==
    [status |-> HTTP_500_INTERNAL_SERVER_ERROR, items |-> items, created |-> FALSE,
     instance |-> [id |-> 0, cart_id |-> 0, product_id |-> 0, quantity |-> 0]]

\* AddCartItemSerializer.save, lookup and write in one step: the rows afterwards,
\* self.instance, and whether a new primary key was used
\* (faulty variant: no lookup, a row is always created)
save_always_create(items, nid, live_carts, prods, cart_id, product_id, quantity) ==
    IF ~ForeignKeyHolds(live_carts, prods, cart_id, product_id)
    THEN Failed(items)
    ELSE [status |-> HTTP_201_CREATED, created |-> TRUE,
          items |-> CartItem_objects_create(items, nid, cart_id, product_id, quantity),
          instance |-> [id |-> nid, cart_id |-> cart_id, product_id |-> product_id,
                        quantity |-> quantity]]
save(items, nid, live_carts, prods, cart_id, product_id, quantity) ==
    LET found == CartItem_objects_get(items, cart_id, product_id)
        cart_item == CHOOSE r \in found : TRUE
    IN  IF Cardinality(found) = 1
        THEN [status |-> HTTP_201_CREATED, created |-> FALSE,
              items |-> save_increment(items, cart_item, quantity),
              instance |-> [cart_item EXCEPT !.quantity = cart_item.quantity + quantity]]
        ELSE IF Cardinality(found) > 1
        THEN Failed(items)
        ELSE IF ~ForeignKeyHolds(live_carts, prods, cart_id, product_id)
        THEN Failed(items)
        ELSE [status |-> HTTP_201_CREATED, created |-> TRUE,
              items |-> CartItem_objects_create(items, nid, cart_id, product_id, quantity),
              instance |-> [id |-> nid, cart_id |-> cart_id, product_id |-> product_id,
                            quantity |-> quantity]]

\* UpdateCartItemSerializer (fields = ['quantity']): the only field written
\* (faulty variant: the quantity is added to the old one)
update_add(items, cart_item, quantity) ==
    (items \ {cart_item})
        \cup {[cart_item EXCEPT !.quantity = cart_item.quantity + quantity]}
update(items, cart_item, quantity) ==
    (items \ {cart_item}) \cup {[cart_item EXCEPT !.quantity = quantity]}

(* ------------------------- store/views.py ----------------------------- *)
\* CartItemViewSet.get_queryset: the rows of the cart named in the path
get_queryset(items, cart_pk) == {r \in items : r.cart_id = cart_pk}

\* deleting a cart deletes the rows that reference it
\* (faulty variant: the rows stay)
CascadeCart_keep(items, c) == items
CascadeCart(items, c) == {r \in items : r.cart_id # c}

\* deleting a product that cart items reference: the rows go with it ("cascade")
\* or the storage layer refuses the delete ("protect")
ProductDeleteOutcomes == {"cascade", "protect"}

\* ProductViewSet.delete: the guard on product.orderitems.count()
\* (faulty variant: no guard)
product_delete_blocked_never(lines, pk) == FALSE
product_delete_blocked(lines, pk) ==
    Cardinality({l \in lines : l.product_id = pk}) > 0

\* CollectionViewSet.delete: the guard on collection.products.count()
\* (faulty variant: no guard)
collection_delete_blocked_never(prods, pk) == FALSE
collection_delete_blocked(prods, pk) ==
    Cardinality({p \in DOMAIN prods : prods[p].collection = pk}) > 0

(* ------------------------------- Init -------------------------------- *)
NoRequest == Response("none", 0)
Idle == [pc |-> "idle", cart_id |-> 0, product_id |-> 0, quantity |-> 0, found |-> {}]

\* a populated catalog (product p belongs to collection p and costs 2p+1, product 1
\* has an order line), no cart, no cart item, no request handled yet
Init ==
    /\ collections = CollectionIds
    /\ products = [p \in ProductIds |-> [collection |-> p, unit_price |-> 2 * p + 1]]
    /\ orderitems = {[id |-> 1, product_id |-> 1]}
    /\ carts = {}
    /\ issued = 0
    /\ cartitems = {}
    /\ nextItemId = 1
    /\ last = NoRequest
    /\ inflight = [w \in Workers |-> Idle]
    /\ requested = [c \in CartIds, p \in ProductIds |-> 0]

(* --------------------- handlers, one request each --------------------- *)
\* POST /carts/ (CreateModelMixin): a new cart under a fresh id
CartCreate ==
    /\ issued + 1 \in CartIds
    /\ carts' = carts \cup {issued + 1}
    /\ issued' = issued + 1
    /\ last' = [Response("cart_create", HTTP_201_CREATED) EXCEPT !.id = issued + 1]
    /\ UNCHANGED <<collections, products, orderitems, cartitems, nextItemId>>
    /\ UNCHANGED concvars

\* GET /carts/{c}/ (RetrieveModelMixin, CartSerializer)
CartRetrieve(c) ==
    /\ last' = IF c \notin carts
               THEN Response("cart_retrieve", HTTP_404_NOT_FOUND)
               ELSE [Response("cart_retrieve", HTTP_200_OK) EXCEPT
                       !.id = c,
                       !.items = {SerializeItem(products, r) : r \in ItemsOf(cartitems, c)},
                       !.total_price = CartSerializer_get_total_price(products, cartitems, c)]
    /\ UNCHANGED dbvars
    /\ UNCHANGED concvars

\* DELETE /carts/{c}/ (DestroyModelMixin)
CartDestroy(c) ==
    /\ IF c \notin carts
       THEN /\ last' = Response("cart_destroy", HTTP_404_NOT_FOUND)
            /\ UNCHANGED <<carts, cartitems>>
       ELSE /\ carts' = carts \ {c}
            /\ cartitems' = CascadeCart(cartitems, c)
            /\ last' = Response("cart_destroy", HTTP_204_NO_CONTENT)
    /\ UNCHANGED <<collections, products, orderitems, issued, nextItemId>>
    /\ UNCHANGED concvars

\* the field errors of an add request: the body of its 400 response
AddErrors(prods, p, q) ==
    (IF validate_product_id(prods, p) THEN {} ELSE {"product_id"})
        \cup (IF validate_quantity(q) THEN {} ELSE {"quantity"})

\* POST /carts/{c}/items/ (AddCartItemSerializer): validation, then save;
\* the 201 body is the saved row
CartItemCreate(c, p, q) ==
    /\ IF AddErrors(products, p, q) # {}
       THEN /\ last' = [Response("item_create", HTTP_400_BAD_REQUEST) EXCEPT
                          !.errors = AddErrors(products, p, q)]
            /\ UNCHANGED <<cartitems, nextItemId>>
       ELSE LET res == save(cartitems, nextItemId, carts, products, c, p, q)
            IN  /\ res.created => nextItemId <= MaxItemId
                /\ \A r \in res.items : r.quantity <= MaxTotal
                /\ cartitems' = res.items
                /\ nextItemId' = IF res.created THEN nextItemId + 1 ELSE nextItemId
                /\ last' = IF res.status = HTTP_201_CREATED
                           THEN [Response("item_create", res.status) EXCEPT
                                   !.id = res.instance.id,
                                   !.product_id = res.instance.product_id,
                                   !.quantity = res.instance.quantity]
                           ELSE Response("item_create", res.status)
    /\ UNCHANGED <<collections, products, orderitems, carts, issued>>
    /\ UNCHANGED concvars

\* PATCH /carts/{c}/items/{pk}/ (UpdateCartItemSerializer): get_object, validation, save
CartItemPartialUpdate(c, pk, q) ==
    LET found == {r \in get_queryset(cartitems, c) : r.id = pk}
    IN  /\ IF found = {}
           THEN /\ last' = Response("item_update", HTTP_404_NOT_FOUND)
                /\ UNCHANGED cartitems
           ELSE IF ~validate_quantity(q)
           THEN /\ last' = [Response("item_update", HTTP_400_BAD_REQUEST) EXCEPT
                              !.errors = {"quantity"}]
                /\ UNCHANGED cartitems
           ELSE /\ cartitems' = update(cartitems, CHOOSE r \in found : TRUE, q)
                /\ last' = [Response("item_update", HTTP_200_OK) EXCEPT !.quantity = q]
        /\ UNCHANGED <<collections, products, orderitems, carts, issued, nextItemId>>
        /\ UNCHANGED concvars

\* DELETE /carts/{c}/items/{pk}/
CartItemDestroy(c, pk) ==
    LET found == {r \in get_queryset(cartitems, c) : r.id = pk}
    IN  /\ IF found = {}
           THEN /\ last' = Response("item_destroy", HTTP_404_NOT_FOUND)
                /\ UNCHANGED cartitems
           ELSE /\ cartitems' = cartitems \ found
                /\ last' = Response("item_destroy", HTTP_204_NO_CONTENT)
        /\ UNCHANGED <<collections, products, orderitems, carts, issued, nextItemId>>
        /\ UNCHANGED concvars

\* ProductViewSet.delete; outcome is what the storage layer does with the cart
\* items that reference the product
ProductDelete(pk, outcome) ==
    /\ IF pk \notin DOMAIN products
       THEN /\ last' = Response("product_delete", HTTP_404_NOT_FOUND)
            /\ UNCHANGED <<products, cartitems>>
       ELSE IF product_delete_blocked(orderitems, pk)
       THEN /\ last' = [Response("product_delete", HTTP_405_METHOD_NOT_ALLOWED) EXCEPT
                          !.errors = {"error"}]
            /\ UNCHANGED <<products, cartitems>>
       ELSE IF outcome = "protect" /\ \E r \in cartitems : r.product_id = pk
       THEN /\ last' = Response("product_delete", HTTP_500_INTERNAL_SERVER_ERROR)
            /\ UNCHANGED <<products, cartitems>>
       ELSE /\ products' = [p \in DOMAIN products \ {pk} |-> products[p]]
            /\ cartitems' = {r \in cartitems : r.product_id # pk}
            /\ last' = Response("product_delete", HTTP_204_NO_CONTENT)
    /\ UNCHANGED <<collections, orderitems, carts, issued, nextItemId>>
    /\ UNCHANGED concvars

\* CollectionViewSet.delete
CollectionDelete(pk) ==
    /\ IF pk \notin collections
       THEN /\ last' = Response("collection_delete", HTTP_404_NOT_FOUND)
            /\ UNCHANGED collections
       ELSE IF collection_delete_blocked(products, pk)
       THEN /\ last' = [Response("collection_delete", HTTP_405_METHOD_NOT_ALLOWED) EXCEPT
                          !.errors = {"error"}]
            /\ UNCHANGED collections
       ELSE /\ collections' = collections \ {pk}
            /\ last' = Response("collection_delete", HTTP_204_NO_CONTENT)
    /\ UNCHANGED <<products, orderitems, carts, issued, cartitems, nextItemId>>
    /\ UNCHANGED concvars

Next ==
    \/ CartCreate
    \/ \E c \in CartIds : CartRetrieve(c)
    \/ \E c \in CartIds : CartDestroy(c)
    \/ \E c \in CartIds, p \in ProductPks, q \in Qtys : CartItemCreate(c, p, q)
    \/ \E c \in CartIds, pk \in ItemPks, q \in Qtys : CartItemPartialUpdate(c, pk, q)
    \/ \E c \in CartIds, pk \in ItemPks : CartItemDestroy(c, pk)
    \/ \E pk \in ProductPks, outcome \in ProductDeleteOutcomes : ProductDelete(pk, outcome)
    \/ \E pk \in CollectionPks : CollectionDelete(pk)

Spec == Init /\ [][Next]_vars

(* ------------- concurrent add requests (AddCartItemSerializer.save) --- *)
RECURSIVE SumQuantity(_)
\* the sum of the quantities of a set of in-flight requests, given as <<worker, quantity>>
SumQuantity(S) ==
    IF S = {} THEN 0
    ELSE LET x == CHOOSE y \in S : TRUE
         IN  x[2] + SumQuantity(S \ {x})

\* the workers that are between the start and the response of an add request
Busy == {w \in Workers : inflight[w].pc # "idle"}

\* the in-flight requests that may still create a row: those that have not looked
\* up yet and those whose lookup found none
MayCreate == {w \in Busy : inflight[w].pc = "lookup" \/ inflight[w].found = {}}

\* the quantity the in-flight requests are about to add
Pending == SumQuantity({<<w, inflight[w].quantity>> : w \in Busy})

RECURSIVE SumRequested(_)
\* the quantity the requests answered 201 have added, over the pairs in S
SumRequested(S) ==
    IF S = {} THEN 0
    ELSE LET x == CHOOSE y \in S : TRUE
         IN  requested[x[1], x[2]] + SumRequested(S \ {x})

\* worker w takes POST /carts/{c}/items/ and validates the body
AddBegin(w, c, p, q) ==
    /\ inflight[w].pc = "idle"
    /\ IF AddErrors(products, p, q) # {}
       THEN /\ last' = [Response("item_create", HTTP_400_BAD_REQUEST) EXCEPT
                          !.errors = AddErrors(products, p, q)]
            /\ UNCHANGED inflight
       ELSE /\ SumRequested(CartIds \X ProductIds) + Pending + q <= MaxTotal
            /\ nextItemId + Cardinality(MayCreate) <= MaxItemId
            /\ inflight' = [inflight EXCEPT ![w] =
                              [pc |-> "lookup", cart_id |-> c, product_id |-> p,
                               quantity |-> q, found |-> {}]]
            /\ UNCHANGED last
    /\ UNCHANGED dbvars
    /\ UNCHANGED requested

\* worker w runs CartItem.objects.get(cart_id=cart_id, product_id=product_id)
AddLookup(w) ==
    LET req == inflight[w]
        found == CartItem_objects_get(cartitems, req.cart_id, req.product_id)
    IN  /\ req.pc = "lookup"
        /\ IF Cardinality(found) > 1
           THEN /\ inflight' = [inflight EXCEPT ![w] = Idle]
                /\ last' = Response("item_create", HTTP_500_INTERNAL_SERVER_ERROR)
           ELSE /\ inflight' = [inflight EXCEPT ![w] = [req EXCEPT !.pc = "write",
                                                                   !.found = found]]
                /\ UNCHANGED last
        /\ UNCHANGED dbvars
        /\ UNCHANGED requested

\* worker w writes: cart_item.save() on the row it read, or CartItem.objects.create
AddWrite(w) ==
    LET req == inflight[w]
        cart_item == CHOOSE r \in req.found : TRUE
    IN  /\ req.pc = "write"
        /\ inflight' = [inflight EXCEPT ![w] = Idle]
        /\ IF req.found # {}
           THEN /\ cartitems' = save_increment(cartitems, cart_item, req.quantity)
                /\ last' = [Response("item_create", HTTP_201_CREATED) EXCEPT
                              !.id = cart_item.id, !.product_id = req.product_id,
                              !.quantity = cart_item.quantity + req.quantity]
                /\ requested' = [requested EXCEPT ![req.cart_id, req.product_id] =
                                                    @ + req.quantity]
                /\ UNCHANGED nextItemId
           ELSE IF ~ForeignKeyHolds(carts, products, req.cart_id, req.product_id)
           THEN /\ last' = Response("item_create", HTTP_500_INTERNAL_SERVER_ERROR)
                /\ UNCHANGED <<cartitems, nextItemId, requested>>
           ELSE /\ cartitems' = CartItem_objects_create(cartitems, nextItemId, req.cart_id,
                                                        req.product_id, req.quantity)
                /\ nextItemId' = nextItemId + 1
                /\ last' = [Response("item_create", HTTP_201_CREATED) EXCEPT
                              !.id = nextItemId, !.product_id = req.product_id,
                              !.quantity = req.quantity]
                /\ requested' = [requested EXCEPT ![req.cart_id, req.product_id] =
                                                    @ + req.quantity]
        /\ UNCHANGED <<collections, products, orderitems, carts, issued>>

NextConc ==
    \/ CartCreate
    \/ \E w \in Workers, c \in CartIds, p \in ProductPks, q \in Qtys : AddBegin(w, c, p, q)
    \/ \E w \in Workers : AddLookup(w)
    \/ \E w \in Workers : AddWrite(w)

SpecConc == Init /\ [][NextConc]_vars

(* ============================ properties ============================== *)
\* the rows that reference cart c and product p
RowsFor(items, c, p) == {r \in items : r.cart_id = c /\ r.product_id = p}

\* the quantities an accepted request can carry
ValidQtys == 1..MaxQty

\* C1: with every request handled to completion before the next one starts, the
\* store holds at most one cart item row for every (cart, product) pair.
C1_OneRowPerPair ==
    \A c \in CartIds, p \in ProductPks : Cardinality(RowsFor(cartitems, c, p)) <= 1

\* an add was merged into an existing row while another row is in the store
C1_Witness ==
    /\ last.op = "item_create" /\ last.status = HTTP_201_CREATED
    /\ last.quantity > MaxQty
    /\ Cardinality(cartitems) >= 2

\* C2: an accepted add of q1 for product P on a cart with no row for P (an empty
\* cart in particular) leaves exactly one row for P, of quantity q1; an accepted
\* add of q2 on a cart whose only row for P has quantity q1 leaves exactly one
\* row for P, the same row, of quantity q1+q2 and creates no row. Hence q1 then
\* q2 on an empty cart yield one row of quantity q1+q2.
C2_AddTwice ==
    [][(last'.op = "item_create" /\ last'.status = HTTP_201_CREATED) =>
       \A c \in CartIds, p \in ProductIds, q \in ValidQtys :
         CartItemCreate(c, p, q) =>
            /\ RowsFor(cartitems, c, p) = {} =>
                 /\ \E r \in cartitems' : /\ RowsFor(cartitems', c, p) = {r}
                                          /\ r.quantity = q
                 /\ ItemsOf(cartitems, c) = {} => Cardinality(ItemsOf(cartitems', c)) = 1
            /\ \A r0 \in RowsFor(cartitems, c, p) :
                 RowsFor(cartitems, c, p) = {r0} =>
                    /\ RowsFor(cartitems', c, p) =
                         {[r0 EXCEPT !.quantity = r0.quantity + q]}
                    /\ Cardinality(cartitems') = Cardinality(cartitems)]_vars

\* a cart whose only row is the one the last add incremented
C2_Witness ==
    /\ last.op = "item_create" /\ last.status = HTTP_201_CREATED
    /\ last.quantity > MaxQty
    /\ \E c \in carts, r \in cartitems :
         /\ ItemsOf(cartitems, c) = {r}
         /\ r.id = last.id /\ r.quantity = last.quantity

\* C3: when add requests for the same (cart, product) pair run concurrently, a
\* write made on a lookup result that is no longer current (another request wrote
\* to the pair in between) ends either with two or more rows for the pair or with
\* a row whose quantity is smaller than the sum of the quantities requested.
C3_StaleWriteRaces ==
    [][\A w \in Workers :
         LET req == inflight[w]
         IN  (/\ req.pc = "write"
              /\ AddWrite(w)
              /\ last'.status = HTTP_201_CREATED
              /\ RowsFor(cartitems, req.cart_id, req.product_id) # req.found) =>
                 \/ Cardinality(RowsFor(cartitems', req.cart_id, req.product_id)) >= 2
                 \/ \E r \in RowsFor(cartitems', req.cart_id, req.product_id) :
                      r.quantity < requested'[req.cart_id, req.product_id]]_vars

\* every request answered, one row for a pair, and an increment lost
C3_Witness ==
    /\ \A w \in Workers : inflight[w].pc = "idle"
    /\ \E c \in CartIds, p \in ProductIds :
         /\ Cardinality(RowsFor(cartitems, c, p)) = 1
         /\ \A r \in RowsFor(cartitems, c, p) : r.quantity < requested[c, p]

\* every request answered and two rows for one pair
C3_DuplicateRows ==
    /\ \A w \in Workers : inflight[w].pc = "idle"
    /\ \E c \in CartIds, p \in ProductIds : Cardinality(RowsFor(cartitems, c, p)) = 2

\* C4: the collection delete handler answers 405 with an error body for a
\* collection that owns at least one product and changes neither the collection
\* nor a product; a collection leaves the store only when it owns no product.
C4_CollectionDeleteGuard ==
    [][/\ (last'.op = "collection_delete") =>
          \A pk \in collections :
            (/\ \E p \in DOMAIN products : products[p].collection = pk
             /\ CollectionDelete(pk)) =>
                /\ last'.status = HTTP_405_METHOD_NOT_ALLOWED
                /\ last'.errors # {}
                /\ collections' = collections
                /\ products' = products
       /\ \A pk \in collections \ collections' :
            ~ \E p \in DOMAIN products : products[p].collection = pk]_vars

\* the delete of a collection that still owns a product was refused
C4_Witness ==
    /\ last.op = "collection_delete" /\ last.status = HTTP_405_METHOD_NOT_ALLOWED
    /\ \E pk \in collections : \E p \in DOMAIN products : products[p].collection = pk
    /\ collections # CollectionIds

\* C5: the product delete handler answers 405 with an error body for a product
\* that an order line references and leaves the product in the store; a product
\* leaves the store only when no order line references it.
C5_ProductDeleteGuard ==
    [][/\ (last'.op = "product_delete") =>
          \A pk \in DOMAIN products, outcome \in ProductDeleteOutcomes :
            (/\ \E l \in orderitems : l.product_id = pk
             /\ ProductDelete(pk, outcome)) =>
                /\ last'.status = HTTP_405_METHOD_NOT_ALLOWED
                /\ last'.errors # {}
                /\ products' = products
                /\ cartitems' = cartitems
       /\ \A pk \in DOMAIN products \ DOMAIN products' :
            ~ \E l \in orderitems : l.product_id = pk]_vars

\* the delete of a product with an order line was refused, another product is gone
C5_Witness ==
    /\ last.op = "product_delete" /\ last.status = HTTP_405_METHOD_NOT_ALLOWED
    /\ \E pk \in DOMAIN products : \E l \in orderitems : l.product_id = pk
    /\ DOMAIN products # ProductIds

\* C6: an add request whose product id references no existing product is answered
\* with a validation error on product_id and leaves the cart item rows unchanged.
C6_UnknownProductRejected ==
    [][(last'.op = "item_create") =>
       \A c \in CartIds, p \in ProductPks \ DOMAIN products, q \in Qtys :
         CartItemCreate(c, p, q) =>
            /\ last'.status = HTTP_400_BAD_REQUEST
            /\ "product_id" \in last'.errors
            /\ cartitems' = cartitems
            /\ nextItemId' = nextItemId]_vars

\* an add naming an unknown product was refused on a cart that holds rows
C6_Witness ==
    /\ last.op = "item_create" /\ last.status = HTTP_400_BAD_REQUEST
    /\ last.errors = {"product_id"}
    /\ \E c \in carts : ItemsOf(cartitems, c) # {}

C8_UpdateSetsExactly ==
    [][(last'.op = "item_update") =>
       LET Frame == UNCHANGED <<carts, products, collections, orderitems, nextItemId>>
           NotFound == /\ last'.status = HTTP_404_NOT_FOUND
                       /\ cartitems' = cartitems
                       /\ Frame
       IN  \A c \in CartIds, pk \in ItemPks :
             LET target == {r \in cartitems : r.id = pk /\ r.cart_id = c}
             IN  \A q \in Qtys :
                   \/ target = {} /\ NotFound
                   \/ /\ target # {} /\ q > 0
                      /\ last'.status = HTTP_200_OK
                      /\ cartitems' = (cartitems \ target)
                                        \cup {[r EXCEPT !.quantity = q] : r \in target}
                      /\ Frame
                   \/ target # {} /\ q <= 0 /\ Frame
                   \/ ~CartItemPartialUpdate(c, pk, q)]_vars

\* an update was applied to one of two rows
C8_Witness ==
    /\ last.op = "item_update" /\ last.status = HTTP_200_OK
    /\ Cardinality(cartitems) = 2
    /\ \E r \in cartitems : r.quantity = last.quantity
    /\ \E r \in cartitems : r.quantity # last.quantity

RECURSIVE TotalByItemId(_, _)
\* the sum, item id by item id, of quantity times unit price over the rows of cart c
TotalByItemId(c, n) ==
    IF n = 0 THEN 0
    ELSE LET rs == {r \in cartitems : r.id = n /\ r.cart_id = c}
         IN  (IF rs = {} THEN 0
              ELSE LET r == CHOOSE x \in rs : TRUE
                   IN  r.quantity * products[r.product_id].unit_price)
               + TotalByItemId(c, n - 1)

\* C9: the cart a retrieve returns shows one line per row of the cart, each with
\* total_price = quantity times the unit price of its product, and a total_price
\* equal to the sum of these over the rows of the cart (0 for an empty cart).
C9_TotalPrice ==
    (last.op = "cart_retrieve" /\ last.status = HTTP_200_OK) =>
        /\ last.total_price = TotalByItemId(last.id, nextItemId - 1)
        /\ {[id |-> l.id, product_id |-> l.product_id, quantity |-> l.quantity] :
               l \in last.items}
             = {[id |-> r.id, product_id |-> r.product_id, quantity |-> r.quantity] :
                  r \in {x \in cartitems : x.cart_id = last.id}}
        /\ \A l \in last.items :
             l.total_price = l.quantity * products[l.product_id].unit_price
        /\ (last.items = {}) => last.total_price = 0

\* a cart of two lines was retrieved, one of them incremented by a second add
C9_Witness ==
    /\ last.op = "cart_retrieve" /\ last.status = HTTP_200_OK
    /\ Cardinality(last.items) = 2
    /\ \E l \in last.items : l.quantity > MaxQty

\* C10: every cart item row references a cart in the store; deleting a cart
\* removes all of its rows and no row of another cart; an add request whose path
\* names no cart in the store creates no row.
C10_ItemsReferenceCarts ==
    /\ [](\A r \in cartitems : r.cart_id \in carts)
    /\ [][/\ (last'.op = "cart_destroy") =>
             \A c \in carts :
               CartDestroy(c) =>
                  /\ c \notin carts'
                  /\ cartitems' = {r \in cartitems : r.cart_id # c}
          /\ (last'.op = "item_create") =>
             \A c \in CartIds \ carts, p \in ProductPks, q \in Qtys :
               CartItemCreate(c, p, q) =>
                  /\ cartitems' = cartitems
                  /\ last'.status # HTTP_201_CREATED]_vars

\* a cart with rows was deleted while the other cart kept its rows
C10_Witness ==
    /\ last.op = "cart_destroy" /\ last.status = HTTP_204_NO_CONTENT
    /\ issued = 2 /\ Cardinality(carts) = 1
    /\ cartitems # {}
    /\ nextItemId > Cardinality(cartitems) + 1

====
